---- MODULE Spec2Model ----
(***************************************************************************)
(* Token lifecycle of AuthService (src/src/auth/auth.service.ts): access   *)
(* tokens with a 300 second lifetime, one rotating refresh token per user  *)
(* record, and the login / register merge.  Every request is a process     *)
(* that runs the handler's code between two awaits as one step, so that    *)
(* requests interleave at the store calls exactly where the code awaits.   *)
(* The user store (UserService) is an external collaborator: its calls are *)
(* modelled from their contract.                                           *)
(***************************************************************************)
EXTENDS Integers, Sequences, FiniteSets, TLC

VARIABLES users, userCount, uuidCount, now, proc, issued, retired

vars == <<users, userCount, uuidCount, now, proc, issued, retired>>

----------------------------------------------------------------------------
(* Bounds of the model *)

\* number of user records ever created
MaxUsers == 2
\* last value of the wall clock, in seconds
MaxClock == 300
\* the requests of a behaviour: each is one call of a handler
Procs == {"p1", "p2"}

----------------------------------------------------------------------------
(* Values *)

jwtTTL == 300

\* JavaScript null / undefined, and the values uuidv4() draws
Null == "<null>"
Undefined == "<undefined>"
UuidPool == <<"r1", "r2", "r3", "r4", "r5", "r6", "r7", "r8", "r9", "r10">>

\* a payload without userId: the userId is falsy
NoUserId == 0

Google == "Google"
Providers == {Google, "Facebook"}

\* the identity claims <<name, email>> the provider vouches for
Claims == {<<"Ann", "ann@x.com">>, <<"Bob", "bob@x.com">>}

\* what jwtService.decode yields for a string that is no JWT: null
NoPayload ==
    [userId |-> NoUserId, name |-> Undefined, email |-> Undefined,
     iat |-> 0, exp |-> 0, permissions |-> <<>>, roles |-> <<>>]

\* the OAuthTokenPayload {name, email} seen as a partial AccessTokenPayload
OAuthTokenPayload(name, email) ==
    [NoPayload EXCEPT !.name = name, !.email = email]

\* an access token on the wire: a JWT (signed with JWT_SECRET or not), a
\* string that is no JWT, or the empty string
Jwt(payload, signed) == [wire |-> "jwt", signed |-> signed, payload |-> payload]
GarbageToken == [wire |-> "garbage", signed |-> FALSE, payload |-> NoPayload]
EmptyToken == [wire |-> "empty", signed |-> FALSE, payload |-> NoPayload]

\* an ID token of the identity provider: valid for this client or not
IdToken(name, email) == [valid |-> TRUE, name |-> name, email |-> email]
BadIdToken == [valid |-> FALSE, name |-> Undefined, email |-> Undefined]
IdTokens == {IdToken(c[1], c[2]) : c \in Claims} \cup {BadIdToken}

Truthy(s) == s \notin {"", Null, Undefined}

----------------------------------------------------------------------------
(* Token codec: JwtService as AuthService uses it *)

\* a slip: the userId is left out of the payload
withoutUserId(tokenPayload, userId) == tokenPayload

\* { ...tokenPayload, userId }
withUserId(tokenPayload, userId) == [tokenPayload EXCEPT !.userId = userId]

\* jwtService.sign with JWT_SECRET
sign(payload) == Jwt(payload, TRUE)

\* jwtService.decode: the claims, with no check of signature or expiry
decode(accessToken) ==
    IF accessToken.wire = "jwt" THEN accessToken.payload ELSE NoPayload

\* a slip: a token is still accepted in the second it expires
verifyAccessTokenLate(accessToken) ==
    /\ accessToken.wire = "jwt"
    /\ accessToken.signed
    /\ now <= accessToken.payload.exp

\* whether verifyAccessToken returns the payload (TRUE) or throws the
\* UNAUTHORIZED HttpException (FALSE): jwtService.verify checks the signature
\* and rejects a token once the clock has reached its exp
verifyAccessToken(accessToken) ==
    /\ accessToken.wire = "jwt"
    /\ accessToken.signed
    /\ now < accessToken.payload.exp

\* a slip: the payload is spread last, so the iat and exp of a decoded token
\* win over the new ones (an OAuth claim has neither)
getAccessTokenSpreadLast(payload) ==
    IF payload.exp = 0
    THEN sign([payload EXCEPT !.iat = now, !.exp = now + jwtTTL])
    ELSE sign(payload)

\* sign({...payload, iat, exp}) with iat the clock in seconds, exp = iat + jwtTTL
getAccessToken(payload) ==
    sign([payload EXCEPT !.iat = now, !.exp = now + jwtTTL])

\* a slip: the value is drawn once, when the module loads
uuidv4Once == UuidPool[1]

\* the value the next uuidv4() call returns
uuidv4 == UuidPool[uuidCount + 1]

\* verifyIdToken: the payload of a valid Google ID token, the UNAUTHORIZED
\* HttpException when the Google client rejects it, and undefined when the
\* switch has no case for the provider (the function falls off its end)
verifyIdToken(idToken, provider) ==
    IF provider = Google
    THEN IF idToken.valid
         THEN [status |-> "returned",
               payload |-> OAuthTokenPayload(idToken.name, idToken.email)]
         ELSE [status |-> "Unauthorized", payload |-> NoPayload]
    ELSE [status |-> "undefined", payload |-> NoPayload]

----------------------------------------------------------------------------
(* UserService: the store adapter, by its contract *)

\* getById: whether a record is found (otherwise it fails NotFound)
getById(userId) == userId \in DOMAIN users

\* getByEmail: the ids of the records found (none: it fails NotFound)
getByEmail(email) == {u \in DOMAIN users : users[u].email = email}

\* create: the store with the new record under a new id
create(name, email) ==
    [u \in DOMAIN users \cup {userCount + 1} |->
        IF u \in DOMAIN users THEN users[u]
        ELSE [name |-> name, email |-> email, refreshToken |-> Null]]

saveRefreshToken(userId, token) ==
    IF userId \in DOMAIN users
    THEN [users EXCEPT ![userId].refreshToken = token]
    ELSE users

\* getUserIfRefreshTokenMatches: whether a record is returned
getUserIfRefreshTokenMatches(userId, token) ==
    /\ userId \in DOMAIN users
    /\ users[userId].refreshToken = token

\* the outcomes of a store write: done, or the store fails; a write to a
\* record that is gone is either ignored or fails NotFound
StoreOutcomes == {"ok", "StoreError", "NotFound"}
CreateOutcomes == {"ok", "StoreError"}
SaveOutcomes(userId) ==
    IF userId \in DOMAIN users THEN {"ok", "StoreError"} ELSE StoreOutcomes

\* history: the refresh token values that a successful write overwrote
Retire(userId, by) ==
    IF userId \in DOMAIN users /\ users[userId].refreshToken # Null
    THEN retired \cup {[userId |-> userId,
                        token |-> users[userId].refreshToken, by |-> by]}
    ELSE retired

----------------------------------------------------------------------------
(* Requests *)

NoResult == [kind |-> "none", accessToken |-> EmptyToken, refreshToken |-> Undefined]
Returned(accessToken, refreshToken) ==
    [kind |-> "ok", accessToken |-> accessToken, refreshToken |-> refreshToken]
Thrown(kind) == [kind |-> kind, accessToken |-> EmptyToken, refreshToken |-> Undefined]
\* the method falls off its end: the promise resolves with undefined
ReturnedUndefined ==
    [kind |-> "undefined", accessToken |-> EmptyToken, refreshToken |-> Undefined]

IdleProc ==
    [pc |-> "idle", op |-> "none",
     accessTokenArg |-> EmptyToken, refreshTokenArg |-> Undefined,
     idTokenArg |-> BadIdToken, providerArg |-> Undefined,
     tokenPayload |-> NoPayload, refreshToken |-> Undefined,
     userId |-> NoUserId, accessToken |-> EmptyToken,
     wrote |-> FALSE, result |-> NoResult]

\* the request ends: its locals are gone, its arguments and result are kept
Finish(p, result) ==
    [proc[p] EXCEPT !.pc = "done", !.result = result,
                    !.tokenPayload = NoPayload, !.refreshToken = Undefined,
                    !.userId = NoUserId, !.accessToken = EmptyToken]

\* the access tokens a caller can present: those the service returned, tokens
\* it never signed, a string that is no JWT, the empty string
ForgedTokens ==
    {Jwt([userId |-> u, name |-> "Mallory", email |-> "mallory@x.com",
          iat |-> 0, exp |-> jwtTTL, permissions |-> q, roles |-> q], FALSE) :
        u \in 0..MaxUsers, q \in {<<1>>}}
AccessTokenInputs ==
    {issued[u] : u \in DOMAIN issued} \cup ForgedTokens \cup {GarbageToken, EmptyToken}

\* history: the access token a caller received last for each userId
Issue(accessToken) ==
    IF accessToken.payload.userId \in DOMAIN issued
    THEN [issued EXCEPT ![accessToken.payload.userId] = accessToken]
    ELSE issued
RefreshTokenInputs == {UuidPool[i] : i \in 1..uuidCount} \cup {"", Undefined}

\* the service starts on a store that is empty
InitEmpty ==
    /\ users = <<>>
    /\ userCount = 0
    /\ uuidCount = 0
    /\ issued = [u \in 1..MaxUsers |-> EmptyToken]

\* or on a store that holds the record, and a caller the pair, of a register
\* call answered just before
InitRegistered ==
    \E claim \in Claims :
       LET payload == withUserId(OAuthTokenPayload(claim[1], claim[2]), 1)
       IN /\ users = [u \in {1} |-> [name |-> claim[1], email |-> claim[2],
                                     refreshToken |-> UuidPool[1]]]
          /\ userCount = 1
          /\ uuidCount = 1
          /\ issued = [u \in 1..MaxUsers |->
                         IF u = 1
                         THEN sign([payload EXCEPT !.iat = 0, !.exp = jwtTTL])
                         ELSE EmptyToken]

Init ==
    /\ InitEmpty \/ InitRegistered
    /\ now = 0
    /\ proc = [p \in Procs |-> IdleProc]
    /\ retired = {}

(* silentLogin *)

SilentLoginStart(p, accessToken) ==
    /\ proc[p].pc = "idle"
    /\ IF verifyAccessToken(accessToken)
       THEN /\ uuidCount' = uuidCount + 1
            /\ proc' = [proc EXCEPT ![p] =
                 [IdleProc EXCEPT !.pc = "sl_getById", !.op = "silentLogin",
                                  !.accessTokenArg = accessToken,
                                  !.tokenPayload = accessToken.payload,
                                  !.refreshToken = uuidv4]]
       ELSE /\ proc' = [proc EXCEPT ![p] =
                 [IdleProc EXCEPT !.pc = "done", !.op = "silentLogin",
                                  !.accessTokenArg = accessToken,
                                  !.result = Thrown("AccessTokenInvalid")]]
            /\ UNCHANGED uuidCount
    /\ UNCHANGED <<users, userCount, now, issued, retired>>

\* a slip: the record is not looked up before the write
SilentLoginSkipsGetById(p) ==
    /\ proc[p].pc = "sl_getById"
    /\ proc' = [proc EXCEPT ![p] = [proc[p] EXCEPT !.pc = "sl_save"]]
    /\ UNCHANGED <<users, userCount, uuidCount, now, issued, retired>>

SilentLoginGetById(p) ==
    /\ proc[p].pc = "sl_getById"
    /\ proc' = [proc EXCEPT ![p] =
         IF getById(proc[p].tokenPayload.userId)
         THEN [proc[p] EXCEPT !.pc = "sl_save"]
         ELSE Finish(p, Thrown("NotFound"))]
    /\ UNCHANGED <<users, userCount, uuidCount, now, issued, retired>>

SilentLoginSave(p, outcome) ==
    /\ proc[p].pc = "sl_save"
    /\ outcome \in SaveOutcomes(proc[p].tokenPayload.userId)
    /\ IF outcome = "ok"
       THEN LET accessToken == getAccessToken(proc[p].tokenPayload)
            IN /\ users' = saveRefreshToken(proc[p].tokenPayload.userId,
                                            proc[p].refreshToken)
               /\ retired' = Retire(proc[p].tokenPayload.userId, "rotate")
               /\ issued' = Issue(accessToken)
               /\ proc' = [proc EXCEPT ![p] =
                    [Finish(p, Returned(accessToken, proc[p].refreshToken))
                        EXCEPT !.wrote = TRUE]]
       ELSE /\ proc' = [proc EXCEPT ![p] = Finish(p, Thrown(outcome))]
            /\ UNCHANGED <<users, issued, retired>>
    /\ UNCHANGED <<userCount, uuidCount, now>>

(* login *)

\* a slip: the catch rethrows whatever it caught
CatchRethrows(kind) == FALSE

\* the catch of login: whether it answers the error by calling register
CatchRegisters(kind) == kind = "NotFound"

LoginStart(p, idToken, provider) ==
    /\ proc[p].pc = "idle"
    /\ LET verified == verifyIdToken(idToken, provider)
           started == [IdleProc EXCEPT !.op = "login", !.idTokenArg = idToken,
                                       !.providerArg = provider]
       IN proc' = [proc EXCEPT ![p] =
            CASE verified.status = "returned" ->
                   [started EXCEPT !.pc = "li_getByEmail",
                                   !.tokenPayload = verified.payload]
              \* the catch rethrows: the status is UNAUTHORIZED
              [] verified.status = "Unauthorized" ->
                   [started EXCEPT !.pc = "done",
                                   !.result = Thrown("IdentityVerificationFailed")]
              \* tokenPayload is undefined: tokenPayload.email throws a
              \* TypeError, which has no status, and the catch rethrows it
              [] verified.status = "undefined" ->
                   [started EXCEPT !.pc = "done", !.result = Thrown("TypeError")]]
    /\ UNCHANGED <<users, userCount, uuidCount, now, issued, retired>>

LoginGetByEmail(p) ==
    /\ proc[p].pc = "li_getByEmail"
    /\ IF getByEmail(proc[p].tokenPayload.email) = {}
       THEN \* getByEmail fails NotFound, which is caught: register(tokenPayload)
            /\ proc' = [proc EXCEPT ![p] =
                 IF CatchRegisters("NotFound")
                 THEN [proc[p] EXCEPT !.pc = "rg_create"]
                 ELSE Finish(p, Thrown("NotFound"))]
            /\ UNCHANGED uuidCount
       ELSE \E userId \in getByEmail(proc[p].tokenPayload.email) :
            /\ uuidCount' = uuidCount + 1
            /\ proc' = [proc EXCEPT ![p] =
                 [proc[p] EXCEPT
                    !.pc = "li_save", !.userId = userId,
                    !.refreshToken = uuidv4,
                    !.accessToken = getAccessToken(
                        withUserId(proc[p].tokenPayload, userId))]]
    /\ UNCHANGED <<users, userCount, now, issued, retired>>

LoginSave(p, outcome) ==
    /\ proc[p].pc = "li_save"
    /\ outcome \in SaveOutcomes(proc[p].userId)
    /\ CASE outcome = "ok" ->
              /\ users' = saveRefreshToken(proc[p].userId, proc[p].refreshToken)
              /\ retired' = Retire(proc[p].userId, "rotate")
              /\ issued' = Issue(proc[p].accessToken)
              /\ proc' = [proc EXCEPT ![p] =
                   [Finish(p, Returned(proc[p].accessToken, proc[p].refreshToken))
                       EXCEPT !.wrote = TRUE]]
         \* whatever threw it, NOT_FOUND is caught: register(tokenPayload)
         [] CatchRegisters(outcome) ->
              /\ proc' = [proc EXCEPT ![p] =
                   [proc[p] EXCEPT !.pc = "rg_create", !.userId = NoUserId,
                                   !.refreshToken = Undefined,
                                   !.accessToken = EmptyToken]]
              /\ UNCHANGED <<users, issued, retired>>
         [] OTHER ->
              /\ proc' = [proc EXCEPT ![p] = Finish(p, Thrown(outcome))]
              /\ UNCHANGED <<users, issued, retired>>
    /\ UNCHANGED <<userCount, uuidCount, now>>

(* register *)

RegisterStart(p, name, email) ==
    /\ <<name, email>> \in Claims
    /\ proc[p].pc = "idle"
    /\ proc' = [proc EXCEPT ![p] =
         [IdleProc EXCEPT !.pc = "rg_create", !.op = "register",
                          !.tokenPayload = OAuthTokenPayload(name, email)]]
    /\ UNCHANGED <<users, userCount, uuidCount, now, issued, retired>>

RegisterCreate(p, outcome) ==
    /\ proc[p].pc = "rg_create"
    /\ outcome \in CreateOutcomes
    /\ IF outcome = "ok"
       THEN LET userId == userCount + 1
            IN /\ userCount < MaxUsers
               /\ users' = create(proc[p].tokenPayload.name,
                                  proc[p].tokenPayload.email)
               /\ userCount' = userCount + 1
               /\ uuidCount' = uuidCount + 1
               /\ proc' = [proc EXCEPT ![p] =
                    [proc[p] EXCEPT
                       !.pc = "rg_save", !.userId = userId,
                       !.refreshToken = uuidv4, !.wrote = TRUE,
                       !.accessToken = getAccessToken(
                           withUserId(proc[p].tokenPayload, userId))]]
       ELSE /\ proc' = [proc EXCEPT ![p] = Finish(p, Thrown(outcome))]
            /\ UNCHANGED <<users, userCount, uuidCount>>
    /\ UNCHANGED <<now, issued, retired>>

RegisterSave(p, outcome) ==
    /\ proc[p].pc = "rg_save"
    /\ outcome \in SaveOutcomes(proc[p].userId)
    /\ IF outcome = "ok"
       THEN /\ users' = saveRefreshToken(proc[p].userId, proc[p].refreshToken)
            /\ retired' = Retire(proc[p].userId, "rotate")
            /\ issued' = Issue(proc[p].accessToken)
            /\ proc' = [proc EXCEPT ![p] =
                 Finish(p, Returned(proc[p].accessToken, proc[p].refreshToken))]
       ELSE /\ proc' = [proc EXCEPT ![p] = Finish(p, Thrown(outcome))]
            /\ UNCHANGED <<users, issued, retired>>
    /\ UNCHANGED <<userCount, uuidCount, now>>

(* logout *)

LogoutStart(p, accessToken) ==
    /\ proc[p].pc = "idle"
    /\ proc' = [proc EXCEPT ![p] =
         IF verifyAccessToken(accessToken)
         THEN [IdleProc EXCEPT !.pc = "lo_save", !.op = "logout",
                               !.accessTokenArg = accessToken,
                               !.userId = accessToken.payload.userId]
         ELSE [IdleProc EXCEPT !.pc = "done", !.op = "logout",
                               !.accessTokenArg = accessToken,
                               !.result = Thrown("AccessTokenInvalid")]]
    /\ UNCHANGED <<users, userCount, uuidCount, now, issued, retired>>

\* a slip: logout writes nothing
LogoutWriteNothing(userId) == users

\* a slip: the write has no filter on the id and clears every record
LogoutWriteEveryUser(userId) ==
    [u \in DOMAIN users |-> [users[u] EXCEPT !.refreshToken = Null]]

\* saveRefreshToken(userId, null)
LogoutWrite(userId) == saveRefreshToken(userId, Null)

LogoutSave(p, outcome) ==
    /\ proc[p].pc = "lo_save"
    /\ outcome \in SaveOutcomes(proc[p].userId)
    /\ IF outcome = "ok"
       THEN /\ users' = LogoutWrite(proc[p].userId)
            /\ retired' = Retire(proc[p].userId, "logout")
            /\ proc' = [proc EXCEPT ![p] =
                 [Finish(p, Returned(EmptyToken, Undefined)) EXCEPT !.wrote = TRUE]]
       ELSE /\ proc' = [proc EXCEPT ![p] = Finish(p, Thrown(outcome))]
            /\ UNCHANGED <<users, retired>>
    /\ UNCHANGED <<userCount, uuidCount, now, issued>>

(* refreshToken *)

\* a slip: the refresh token is not among the operands of the if
RefreshRequestOkWithoutRefreshToken(accessToken, refreshToken) ==
    /\ accessToken.wire # "empty"
    /\ decode(accessToken).userId # NoUserId

\* a slip: the decoded userId is not among the operands of the if
RefreshRequestOkWithoutUserId(accessToken, refreshToken) ==
    /\ accessToken.wire # "empty"
    /\ Truthy(refreshToken)

\* the condition of the if: both strings and the decoded userId are truthy
RefreshRequestOk(accessToken, refreshToken) ==
    /\ accessToken.wire # "empty"
    /\ Truthy(refreshToken)
    /\ decode(accessToken).userId # NoUserId

\* a slip: the exchange looks the user up by id and never compares the token
RefreshAcceptsAnyToken(accessToken, refreshToken) ==
    /\ RefreshRequestOk(accessToken, refreshToken)
    /\ getById(decode(accessToken).userId)

\* a slip: the exchange verifies the access token as silentLogin does
RefreshAcceptsVerified(accessToken, refreshToken) ==
    /\ RefreshRequestOk(accessToken, refreshToken)
    /\ verifyAccessToken(accessToken)
    /\ getUserIfRefreshTokenMatches(decode(accessToken).userId, refreshToken)

\* whether the exchange gets past both ifs: the request is well formed and
\* the store returns the record whose refresh token matches
RefreshAccepts(accessToken, refreshToken) ==
    /\ RefreshRequestOk(accessToken, refreshToken)
    /\ getUserIfRefreshTokenMatches(decode(accessToken).userId, refreshToken)

RefreshTokenStart(p, accessToken, refreshToken) ==
    /\ proc[p].pc = "idle"
    /\ LET started == [IdleProc EXCEPT !.op = "refreshToken",
                                       !.accessTokenArg = accessToken,
                                       !.refreshTokenArg = refreshToken]
       IN proc' = [proc EXCEPT ![p] =
            IF RefreshRequestOk(accessToken, refreshToken)
            THEN [started EXCEPT !.pc = "rt_match",
                                 !.tokenPayload = decode(accessToken)]
            ELSE [started EXCEPT !.pc = "done", !.result = Thrown("BadRequest")]]
    /\ UNCHANGED <<users, userCount, uuidCount, now, issued, retired>>

RefreshTokenMatch(p) ==
    /\ proc[p].pc = "rt_match"
    /\ IF RefreshAccepts(proc[p].accessTokenArg, proc[p].refreshTokenArg)
       THEN /\ uuidCount' = uuidCount + 1
            /\ proc' = [proc EXCEPT ![p] =
                 [proc[p] EXCEPT
                    !.pc = "rt_save", !.userId = proc[p].tokenPayload.userId,
                    !.refreshToken = uuidv4,
                    !.accessToken = getAccessToken(proc[p].tokenPayload)]]
       ELSE /\ proc' = [proc EXCEPT ![p] = Finish(p, Thrown("NotFound"))]
            /\ UNCHANGED uuidCount
    /\ UNCHANGED <<users, userCount, now, issued, retired>>

RefreshTokenSave(p, outcome) ==
    /\ proc[p].pc = "rt_save"
    /\ outcome \in SaveOutcomes(proc[p].userId)
    /\ IF outcome = "ok"
       THEN /\ users' = saveRefreshToken(proc[p].userId, proc[p].refreshToken)
            /\ retired' = Retire(proc[p].userId, "rotate")
            /\ issued' = Issue(proc[p].accessToken)
            /\ proc' = [proc EXCEPT ![p] =
                 [Finish(p, Returned(proc[p].accessToken, proc[p].refreshToken))
                     EXCEPT !.wrote = TRUE]]
       ELSE /\ proc' = [proc EXCEPT ![p] = Finish(p, Thrown(outcome))]
            /\ UNCHANGED <<users, issued, retired>>
    /\ UNCHANGED <<userCount, uuidCount, now>>

(* environment *)

\* Date.now() advances
ClockSteps == {jwtTTL - 1, jwtTTL}
Tick(d) ==
    /\ now + d <= MaxClock
    /\ now' = now + d
    /\ UNCHANGED <<users, userCount, uuidCount, proc, issued, retired>>

\* a user record is deleted from the store
DeleteUser(userId) ==
    /\ userId \in DOMAIN users
    /\ users' = [u \in DOMAIN users \ {userId} |-> users[u]]
    /\ UNCHANGED <<userCount, uuidCount, now, proc, issued, retired>>

Next ==
    \/ \E p \in Procs, accessToken \in AccessTokenInputs :
          SilentLoginStart(p, accessToken)
    \/ \E p \in Procs : SilentLoginGetById(p)
    \/ \E p \in Procs, outcome \in StoreOutcomes : SilentLoginSave(p, outcome)
    \/ \E p \in Procs, idToken \in IdTokens, provider \in Providers :
          LoginStart(p, idToken, provider)
    \/ \E p \in Procs : LoginGetByEmail(p)
    \/ \E p \in Procs, outcome \in StoreOutcomes : LoginSave(p, outcome)
    \/ \E p \in Procs, claim \in Claims : RegisterStart(p, claim[1], claim[2])
    \/ \E p \in Procs, outcome \in StoreOutcomes : RegisterCreate(p, outcome)
    \/ \E p \in Procs, outcome \in StoreOutcomes : RegisterSave(p, outcome)
    \/ \E p \in Procs, accessToken \in AccessTokenInputs : LogoutStart(p, accessToken)
    \/ \E p \in Procs, outcome \in StoreOutcomes : LogoutSave(p, outcome)
    \/ \E p \in Procs, accessToken \in AccessTokenInputs,
          refreshToken \in RefreshTokenInputs :
          RefreshTokenStart(p, accessToken, refreshToken)
    \/ \E p \in Procs : RefreshTokenMatch(p)
    \/ \E p \in Procs, outcome \in StoreOutcomes : RefreshTokenSave(p, outcome)
    \/ \E d \in ClockSteps : Tick(d)
    \/ \E userId \in DOMAIN users : DeleteUser(userId)

Spec == Init /\ [][Next]_vars

----------------------------------------------------------------------------
(* Properties *)

RetiredBy(by) == {r.token : r \in {x \in retired : x.by = by}}

\* the step in which the exchange of request p has its refresh token compared
\* with the stored one, and whether it passed
MatchStep(p) == proc[p].pc = "rt_match" /\ proc'[p].pc # "rt_match"
MatchPassed(p) == proc'[p].pc = "rt_save"

\* C1: once a successful silentLogin, login, register or refreshToken has
\* overwritten a stored refresh token, no exchange that presents the
\* overwritten value gets past the match: the value is single-use.
RotationIsSingleUse ==
    [][\A p \in Procs :
         (MatchStep(p) /\ proc[p].refreshTokenArg \in RetiredBy("rotate"))
            => ~MatchPassed(p)]_vars

\* an exchange presented a value that a rotation had overwritten, for the user
\* it had belonged to, and failed to match
ReplayedRotatedToken ==
    \E p \in Procs :
       /\ proc[p].pc = "done" /\ proc[p].op = "refreshToken"
       /\ proc[p].result.kind = "NotFound"
       /\ [userId |-> proc[p].accessTokenArg.payload.userId,
           token |-> proc[p].refreshTokenArg, by |-> "rotate"] \in retired

\* C2: once a logout has succeeded, no exchange that presents the refresh
\* token the logout cleared gets past the match, whatever access token comes
\* with it.
LogoutRevokesRefreshToken ==
    [][\A p \in Procs :
         (MatchStep(p) /\ proc[p].refreshTokenArg \in RetiredBy("logout"))
            => ~MatchPassed(p)]_vars

\* an exchange presented the value a logout had cleared, with an access token
\* that still verifies, and failed to match
ReplayedLoggedOutToken ==
    \E p \in Procs :
       /\ proc[p].pc = "done" /\ proc[p].op = "refreshToken"
       /\ proc[p].result.kind = "NotFound"
       /\ verifyAccessToken(proc[p].accessTokenArg)
       /\ [userId |-> proc[p].accessTokenArg.payload.userId,
           token |-> proc[p].refreshTokenArg, by |-> "logout"] \in retired

\* C3: the exchange gets past the match exactly when the presented refresh
\* token is the one stored for the userId decoded from the presented access
\* token; whether that access token verifies plays no part, and the exchange
\* returns a pair only after passing the match.
RefreshTrustsStoredTokenOnly ==
    [][\A p \in Procs :
         LET userId == decode(proc[p].accessTokenArg).userId
         IN /\ MatchStep(p) =>
                 (MatchPassed(p) <=>
                    /\ userId \in DOMAIN users
                    /\ users[userId].refreshToken = proc[p].refreshTokenArg)
            /\ (/\ proc'[p].op = "refreshToken"
                /\ proc[p].pc # "done" /\ proc'[p].pc = "done"
                /\ proc'[p].result.kind = "ok") => proc[p].pc = "rt_save"
            /\ (proc'[p].op = "refreshToken" /\ proc'[p].pc = "done")
                  => proc'[p].result.kind # "AccessTokenInvalid"]_vars

\* two exchanges returned a pair, one on an access token the service never
\* signed, the other on one of its own that had expired
RefreshedOnUnverifiableTokens ==
    \E p, q \in Procs :
       /\ proc[p].pc = "done" /\ proc[p].op = "refreshToken"
       /\ proc[p].result.kind = "ok"
       /\ ~proc[p].accessTokenArg.signed
       /\ proc[q].pc = "done" /\ proc[q].op = "refreshToken"
       /\ proc[q].result.kind = "ok"
       /\ proc[q].accessTokenArg.signed
       /\ proc[q].accessTokenArg.payload.exp <= now

\* the request p ends in this step
Ends(p) == proc[p].pc # "done" /\ proc'[p].pc = "done"

\* C4: a login whose lookup by email finds no record goes on exactly as a
\* register call with the verified claim: the request is in the state
\* register starts from, and from there, login or register alike, the create
\* step adds one record with the claim's name and email under a new userId
\* and signs an access token bound to it, and the save step stores the
\* refresh token it returns with that access token.
LoginOfNewUserIsRegister ==
    [][\A p \in Procs :
         LET claim == proc[p].tokenPayload
             userId == proc'[p].userId
         IN /\ (/\ proc[p].pc = "li_getByEmail" /\ proc'[p] # proc[p]
                /\ getByEmail(claim.email) = {})
                  => /\ claim = OAuthTokenPayload(proc[p].idTokenArg.name,
                                                  proc[p].idTokenArg.email)
                     /\ [proc'[p] EXCEPT !.op = "register",
                                         !.idTokenArg = BadIdToken,
                                         !.providerArg = Undefined]
                          = [IdleProc EXCEPT !.pc = "rg_create",
                                             !.op = "register",
                                             !.tokenPayload = claim]
                     /\ UNCHANGED <<users, userCount, uuidCount, issued>>
            /\ (proc[p].pc = "rg_create" /\ proc'[p].pc = "rg_save")
                  => /\ userId \notin DOMAIN users
                     /\ DOMAIN users' = DOMAIN users \cup {userId}
                     /\ \A u \in DOMAIN users : users'[u] = users[u]
                     /\ users'[userId].name = claim.name
                     /\ users'[userId].email = claim.email
                     /\ proc'[p].accessToken.signed
                     /\ proc'[p].accessToken.payload.userId = userId
                     /\ proc'[p].accessToken.payload.name = claim.name
                     /\ proc'[p].accessToken.payload.email = claim.email
                     /\ Truthy(proc'[p].refreshToken)
            /\ (proc[p].pc = "rg_save" /\ Ends(p) /\ proc'[p].result.kind = "ok")
                  => /\ proc'[p].result
                          = Returned(proc[p].accessToken, proc[p].refreshToken)
                     /\ proc[p].userId \in DOMAIN users
                          => users'[proc[p].userId].refreshToken
                               = proc[p].refreshToken]_vars

\* on a store that was empty, the only uuidv4 drawn so far is that of a
\* login, which returned a pair for the user record it created
FirstLoginRegistered ==
    \E p \in Procs :
       /\ uuidCount = 1 /\ userCount = 1
       /\ proc[p].pc = "done" /\ proc[p].op = "login"
       /\ proc[p].result.kind = "ok"
       /\ 1 \in DOMAIN users
       /\ users[1].email = proc[p].idTokenArg.email
       /\ users[1].refreshToken = proc[p].result.refreshToken
       /\ proc[p].result.accessToken.payload.userId = 1

\* C5: when a silentLogin, login, register or refreshToken returns, the
\* refresh token it returns is a value, it is the one stored for the user
\* (as long as the record is there) and it is not the one stored until then;
\* when a logout returns, the stored value is absent.
EveryExchangeRotates ==
    [][\A p \in Procs :
         (Ends(p) /\ proc'[p].result.kind = "ok") =>
            IF proc'[p].op = "logout"
            THEN LET userId == proc'[p].accessTokenArg.payload.userId
                 IN userId \in DOMAIN users'
                      => users'[userId].refreshToken = Null
            ELSE LET userId == proc'[p].result.accessToken.payload.userId
                     refreshToken == proc'[p].result.refreshToken
                 IN /\ Truthy(refreshToken)
                    /\ userId \in DOMAIN users'
                         => /\ users'[userId].refreshToken = refreshToken
                            /\ userId \in DOMAIN users
                            /\ users[userId].refreshToken # refreshToken]_vars

\* a silentLogin returned a pair whose refresh token replaced an earlier one
\* of the same user
SilentLoginRotated ==
    \E p \in Procs :
       /\ proc[p].pc = "done" /\ proc[p].op = "silentLogin"
       /\ proc[p].result.kind = "ok"
       /\ LET userId == proc[p].result.accessToken.payload.userId
          IN /\ userId \in DOMAIN users
             /\ users[userId].refreshToken = proc[p].result.refreshToken
             /\ \E r \in retired : r.userId = userId /\ r.by = "rotate"

\* the refresh token values a caller may try
RefreshTokenCandidates ==
    {UuidPool[i] : i \in DOMAIN UuidPool} \cup {"", Null, Undefined}

\* C6: for every userId, whatever access tokens carry it, at most one refresh
\* token value gets an exchange past the match.
AtMostOneValidRefreshToken ==
    \A u \in 0..MaxUsers :
       Cardinality(UNION {{t \in RefreshTokenCandidates : RefreshAccepts(a, t)} :
                            a \in {x \in AccessTokenInputs :
                                      decode(x).userId = u}}) <= 1

\* a user has a valid refresh token and an earlier one that was rotated away
OneValidAfterRotation ==
    \E u \in DOMAIN users :
       /\ \E a \in AccessTokenInputs : RefreshAccepts(a, users[u].refreshToken)
       /\ \E r \in retired : r.userId = u /\ r.by = "rotate"

\* C7: an exchange whose refresh token is empty or missing ends at once with
\* BadRequest, whatever the access token, and the store is as it was.
EmptyRefreshTokenIsBadRequest ==
    [][\A p \in Procs :
         (/\ proc[p].pc = "idle" /\ proc'[p].pc # "idle"
          /\ proc'[p].op = "refreshToken"
          /\ ~Truthy(proc'[p].refreshTokenArg))
            => /\ proc'[p].pc = "done"
               /\ proc'[p].result = Thrown("BadRequest")
               /\ users' = users]_vars

\* two exchanges without a refresh token ended with BadRequest, one on an
\* access token that verifies and one on a string that is no JWT
BadRequestWhateverAccessToken ==
    \E p, q \in Procs :
       /\ proc[p].pc = "done" /\ proc[p].op = "refreshToken"
       /\ proc[p].result.kind = "BadRequest"
       /\ proc[p].refreshTokenArg = ""
       /\ verifyAccessToken(proc[p].accessTokenArg)
       /\ proc[q].pc = "done" /\ proc[q].op = "refreshToken"
       /\ proc[q].result.kind = "BadRequest"
       /\ proc[q].refreshTokenArg = Undefined
       /\ proc[q].accessTokenArg = GarbageToken

\* C8: an access token the service returned has exp = iat + 300 and verifies
\* exactly while the clock is below iat + 300; and the iat of a token is the
\* clock value of the step that signs it.
AccessTokenLivesFor300Seconds ==
    /\ [](\A u \in DOMAIN issued :
            issued[u] # EmptyToken =>
               /\ issued[u].payload.exp = issued[u].payload.iat + 300
               /\ verifyAccessToken(issued[u])
                    <=> now < issued[u].payload.iat + 300)
    /\ [][\A p \in Procs :
            /\ (proc'[p].accessToken # proc[p].accessToken
                  /\ proc'[p].accessToken # EmptyToken)
                  => /\ proc'[p].accessToken.payload.iat = now
                     /\ proc'[p].accessToken.payload.exp = now + 300
            /\ (Ends(p) /\ proc'[p].result.kind = "ok"
                  /\ proc'[p].op # "logout"
                  /\ proc'[p].result.accessToken # proc[p].accessToken)
                  => /\ proc'[p].result.accessToken.payload.iat = now
                     /\ proc'[p].result.accessToken.payload.exp = now + 300]_vars

\* a token signed at 0 was refused by silentLogin or logout at 300, the
\* second it expires
RefusedAtExpiry ==
    \E p \in Procs :
       /\ proc[p].pc = "done" /\ proc[p].op \in {"silentLogin", "logout"}
       /\ proc[p].result.kind = "AccessTokenInvalid"
       /\ proc[p].accessTokenArg.signed
       /\ proc[p].accessTokenArg.payload.iat = 0
       /\ now = 300

\* C9: a request that ends in a failure has written nothing to the store.
FailureLeavesNoSideEffect ==
    \A p \in Procs :
       (proc[p].pc = "done" /\ proc[p].result.kind # "ok") => ~proc[p].wrote

\* C10: a login with a provider other than Google ends in
\* IdentityVerificationFailed and has written nothing to the store.
UnsupportedProviderIsUnauthorized ==
    \A p \in Procs :
       (proc[p].pc = "done" /\ proc[p].op = "login"
          /\ proc[p].providerArg # Google)
         => /\ proc[p].result.kind = "IdentityVerificationFailed"
            /\ ~proc[p].wrote

\* C11: a silentLogin whose access token verifies but names a userId with no
\* user record ends at the lookup with the store's NotFound: no token pair,
\* no write, and the save step is never entered.
DeletedUserSilentLoginIsNotFound ==
    [][\A p \in Procs :
         ( /\ proc[p].pc = "sl_getById"
           /\ proc'[p].pc # "sl_getById"
           /\ verifyAccessToken(proc[p].accessTokenArg)
           /\ proc[p].tokenPayload.userId \notin DOMAIN users )
         => /\ proc'[p].pc = "done"
            /\ proc'[p].result = Thrown("NotFound")
            /\ ~proc'[p].wrote
            /\ users' = users
            /\ issued' = issued]_vars

\* a silentLogin ended NotFound on a token the service signed, still unexpired
SilentLoginOfDeletedUser ==
    \E p \in Procs :
       /\ proc[p].pc = "done"
       /\ proc[p].op = "silentLogin"
       /\ proc[p].result = Thrown("NotFound")
       /\ proc[p].accessTokenArg.signed
       /\ now < proc[p].accessTokenArg.payload.exp
       /\ proc[p].accessTokenArg.payload.userId \notin DOMAIN users
       /\ ~proc[p].wrote

\* C12: a logout whose access token verifies and whose write succeeds leaves
\* the stored refresh token of the token's userId absent and every other
\* record as it was; a logout whose access token does not verify ends with
\* AccessTokenInvalid and changes no record.
LogoutClearsOnlyItsUser ==
    [][\A p \in Procs :
         /\ ( /\ proc[p].pc = "idle"
              /\ proc'[p].op = "logout" )
            => /\ users' = users
               /\ IF verifyAccessToken(proc'[p].accessTokenArg)
                  THEN /\ proc'[p].pc = "lo_save"
                       /\ proc'[p].userId = proc'[p].accessTokenArg.payload.userId
                  ELSE /\ proc'[p].pc = "done"
                       /\ proc'[p].result = Thrown("AccessTokenInvalid")
         /\ ( /\ proc[p].pc = "lo_save"
              /\ proc'[p].pc = "done" )
            => /\ proc[p].userId = proc[p].accessTokenArg.payload.userId
               /\ DOMAIN users' = DOMAIN users
               /\ \A u \in DOMAIN users :
                     IF u = proc[p].userId /\ proc'[p].result.kind = "ok"
                     THEN users'[u] = [users[u] EXCEPT !.refreshToken = Null]
                     ELSE users'[u] = users[u]]_vars

\* a logout has cleared its user's refresh token while another user's record
\* still holds one
LoggedOutBesideAnotherUser ==
    \E p \in Procs :
       /\ proc[p].pc = "done"
       /\ proc[p].op = "logout"
       /\ proc[p].result.kind = "ok"
       /\ \E u, v \in DOMAIN users :
             /\ u = proc[p].accessTokenArg.payload.userId
             /\ users[u].refreshToken = Null
             /\ v # u
             /\ Truthy(users[v].refreshToken)

\* C13: login hands over to register only from the lookup by email, and only
\* when that lookup finds no record: a failure of a later step never does.
OnlyAbsentUserTriggersRegister ==
    [][\A p \in Procs :
         ( /\ proc[p].op = "login"
           /\ proc[p].pc # "rg_create"
           /\ proc'[p].pc = "rg_create" )
         => /\ proc[p].pc = "li_getByEmail"
            /\ getByEmail(proc[p].tokenPayload.email) = {}]_vars

\* the exchange was called with both strings non-empty and an access token
\* that decodes to no userId
NoUserIdExchange(p) ==
    /\ proc[p].op = "refreshToken"
    /\ proc[p].accessTokenArg.wire # "empty"
    /\ Truthy(proc[p].refreshTokenArg)
    /\ decode(proc[p].accessTokenArg).userId = NoUserId

\* C14 as stated: such an exchange resolves with no result and no error.
NoUserIdExchangeReturnsNothing ==
    \A p \in Procs :
       (proc[p].pc = "done" /\ NoUserIdExchange(p))
       => proc[p].result = ReturnedUndefined

\* C14, amended: such an exchange fails with BadRequest at once, as one with
\* a missing token does; it returns no token pair and writes nothing.
NoUserIdExchangeIsBadRequest ==
    /\ [](\A p \in Procs :
            (NoUserIdExchange(p) /\ proc[p].pc # "idle")
            => /\ proc[p].pc = "done"
               /\ proc[p].result = Thrown("BadRequest")
               /\ ~proc[p].wrote)
    /\ [][\A p \in Procs :
            (proc[p].pc = "idle" /\ NoUserIdExchange(p)')
            => /\ users' = users
               /\ issued' = issued
               /\ uuidCount' = uuidCount]_vars

\* an exchange with a stored refresh token and an access token without a
\* userId was refused, and the stored token is still in place
RefusedExchangeWithoutUserId ==
    \E p \in Procs :
       /\ proc[p].pc = "done"
       /\ NoUserIdExchange(p)
       /\ proc[p].result = Thrown("BadRequest")
       /\ \E u \in DOMAIN users : users[u].refreshToken = proc[p].refreshTokenArg

\* the payload signed at clock value t from the claims of a presented payload
Reissued(payload, t) == [payload EXCEPT !.iat = t, !.exp = t + jwtTTL]

\* C15: silentLogin and the exchange sign the claims of the presented token
\* with iat the clock value at signing and exp 300 later; login and register
\* sign the verified claim bound to the userId the store returned, whatever
\* userId the claim itself carried.
ReissueKeepsClaimsAndRestamps ==
    [][\A p \in Procs :
         /\ (proc[p].pc = "sl_save" /\ proc'[p].result.kind = "ok")
            => proc'[p].result.accessToken =
                  sign(Reissued(proc[p].accessTokenArg.payload, now))
         /\ (proc[p].pc = "rt_match" /\ proc'[p].pc = "rt_save")
            => proc'[p].accessToken =
                  sign(Reissued(decode(proc[p].accessTokenArg), now))
         /\ (proc[p].pc = "rt_save" /\ proc'[p].result.kind = "ok")
            => proc'[p].result.accessToken = proc[p].accessToken
         /\ (proc[p].pc = "li_getByEmail" /\ proc'[p].pc = "li_save")
            => /\ proc'[p].userId \in getByEmail(proc[p].tokenPayload.email)
               /\ proc'[p].accessToken =
                     sign(Reissued([proc[p].tokenPayload EXCEPT
                                       !.userId = proc'[p].userId], now))
         /\ (proc[p].pc = "rg_create" /\ proc'[p].pc = "rg_save")
            => /\ proc'[p].userId \in DOMAIN users' \ DOMAIN users
               /\ users'[proc'[p].userId].email = proc[p].tokenPayload.email
               /\ proc'[p].accessToken =
                     sign(Reissued([proc[p].tokenPayload EXCEPT
                                       !.userId = proc'[p].userId], now))
         /\ (proc[p].pc \in {"li_save", "rg_save"} /\ proc'[p].result.kind = "ok")
            => proc'[p].result.accessToken = proc[p].accessToken
         /\ \A stale \in 0..MaxUsers, userId \in 1..MaxUsers :
               withUserId([proc[p].tokenPayload EXCEPT !.userId = stale],
                          userId).userId = userId]_vars

\* a token presented after the clock had advanced came back with the same
\* claims and a later iat and exp
ReissuedWithNewStamps ==
    \E p \in Procs :
       /\ proc[p].pc = "done"
       /\ proc[p].op \in {"silentLogin", "refreshToken"}
       /\ proc[p].result.kind = "ok"
       /\ LET old == proc[p].accessTokenArg.payload
              new == proc[p].result.accessToken.payload
          IN /\ new.iat > old.iat
             /\ new.exp = new.iat + jwtTTL
             /\ new.exp > old.exp
             /\ Reissued(old, new.iat) = new

\* the operations that store a new refresh token
RotatingOps == {"silentLogin", "login", "register", "refreshToken"}

\* request p has returned a token pair for user u
Rotated(p, u) ==
    /\ proc[p].pc = "done"
    /\ proc[p].op \in RotatingOps
    /\ proc[p].result.kind = "ok"
    /\ proc[p].result.accessToken.payload.userId = u

\* the place of a refresh token in the order the values were drawn
DrawOrder(token) == CHOOSE i \in 1..Len(UuidPool) : UuidPool[i] = token

Exchanged(p, token) ==
    /\ proc[p].pc = "done"
    /\ proc[p].op = "refreshToken"
    /\ proc[p].result.kind = "ok"
    /\ proc[p].refreshTokenArg = token

\* C17 as stated: no two exchanges return a pair for the same refresh token.
ExchangeAcceptsTokenOnce ==
    \A p, q \in Procs :
       (p # q /\ Exchanged(p, proc[p].refreshTokenArg))
       => ~Exchanged(q, proc[p].refreshTokenArg)

\* C17, amended: an exchange whose match runs after another exchange has
\* returned a pair for the same refresh token is refused; only exchanges
\* whose matches both precede either write can both return a pair.
ExchangeAfterExchangeIsRefused ==
    [][\A p, q \in Procs :
         (p # q /\ MatchStep(p) /\ Exchanged(q, proc[p].refreshTokenArg))
         => ~MatchPassed(p)]_vars

\* of two exchanges presenting one refresh token, one returned a pair and the
\* other, matched after it, was refused
SecondExchangeRefused ==
    \E p, q \in Procs :
       /\ p # q
       /\ Exchanged(q, proc[p].refreshTokenArg)
       /\ proc[p].pc = "done"
       /\ proc[p].op = "refreshToken"
       /\ proc[p].result = Thrown("NotFound")
       /\ decode(proc[p].accessTokenArg).userId
             = decode(proc[q].accessTokenArg).userId

\* C18: every access token the service has signed and returned carries the
\* name and email of the user record its userId identifies, and no
\* permissions or roles but those of a token issued to that user before (the
\* tokens of login and register, the first ones issued, carry none).
SignedClaimsAreEstablished ==
    \A p \in Procs :
       (proc[p].pc = "done" /\ proc[p].result.kind = "ok"
          /\ proc[p].op \in RotatingOps)
       => LET payload == proc[p].result.accessToken.payload
          IN /\ proc[p].result.accessToken.signed
             /\ payload.userId \in DOMAIN users
                  => /\ payload.name = users[payload.userId].name
                     /\ payload.email = users[payload.userId].email
                     /\ payload.permissions = NoPayload.permissions
                     /\ payload.roles = NoPayload.roles

\* a logout for user u has succeeded
LoggedOut(u) ==
    \E p \in Procs :
       /\ proc[p].pc = "done"
       /\ proc[p].op = "logout"
       /\ proc[p].result.kind = "ok"
       /\ proc[p].accessTokenArg.payload.userId = u

\* C19 as stated: after a logout the stored refresh token of the user stays
\* absent, and no request returns a pair for the user, unless the request
\* is a login.
LoggedOutUntilLogin ==
    [][\A u \in DOMAIN users :
         (LoggedOut(u) /\ users[u].refreshToken = Null)
         => /\ (u \in DOMAIN users' /\ users'[u].refreshToken # Null)
                => \E p \in Procs : Ends(p) /\ proc[p].op = "login"
            /\ \A p \in Procs :
                  (Ends(p) /\ Rotated(p, u)') => proc[p].op = "login"]_vars

\* C19, amended: after a logout no exchange matched while the stored refresh
\* token is absent gets past the match, and the stored token stays absent
\* until a request stores a new one at its save step: a login or register, a
\* silentLogin (whose access token, issued before the logout, still
\* verified), or an exchange that had passed its match before the logout.
LoggedOutUntilNextSave ==
    [][\A u \in DOMAIN users :
         (LoggedOut(u) /\ users[u].refreshToken = Null)
         => /\ \A p \in Procs :
                  (MatchStep(p) /\ proc[p].tokenPayload.userId = u)
                  => ~MatchPassed(p)
            /\ (u \in DOMAIN users' /\ users'[u].refreshToken # Null)
                => \E p \in Procs :
                      /\ proc[p].pc \in {"sl_save", "li_save", "rg_save", "rt_save"}
                      /\ Rotated(p, u)'
                      /\ users'[u].refreshToken = proc'[p].result.refreshToken]_vars

\* after a logout, a silentLogin presenting the very access token the logout
\* was called with returned a pair, and its refresh token is the stored one
SilentLoginAfterLogout ==
    \E p, q \in Procs, u \in DOMAIN users :
       /\ proc[p].pc = "done" /\ proc[p].op = "logout"
       /\ proc[p].result.kind = "ok"
       /\ proc[p].accessTokenArg.payload.userId = u
       /\ proc[q].op = "silentLogin"
       /\ Rotated(q, u)
       /\ proc[q].accessTokenArg = proc[p].accessTokenArg
       /\ users[u].refreshToken = proc[q].result.refreshToken

\* C20: when the requests are logins, however they interleave, no two user
\* records hold the same email.
ConcurrentLoginsCreateOneRecord ==
    (\A p \in Procs : proc[p].op = "login")
    => \A u, v \in DOMAIN users :
          users[u].email = users[v].email => u = v

====
